---- MODULE Spec2Model ----
(***************************************************************************)
(* One build of toxicslave.build.Builder: Builder.build() enters the build *)
(* environment, runs _do_build() over the materialized step list and       *)
(* leaves the environment.  Every step is run by BuildStep.execute() in an *)
(* asyncio task that the builder registers in the manager's build-task     *)
(* registry, so that the manager can cancel it.  Each await of the code is *)
(* a point where the builder or the task is suspended; an action of this   *)
(* module is the code that runs between two such points.                   *)
(***************************************************************************)
EXTENDS Integers, Sequences, FiniteSets, TLC

(* ---------------- bounds of the model ---------------- *)
MaxSteps == 2
MaxLines == 1
MaxSleeps == 1

(* ---------------- program constants ---------------- *)
\* Builder.STEP_OUTPUT_BUFF_LEN
STEP_OUTPUT_BUFF_LEN == 0
\* BuildStep.__init__: timeout=3600
DefaultTimeout == 3600
\* self._current_step_output_index = None
None == -1
\* build_status = None, last_step_status = None
NoStatus == "None"
\* the registry has no task for the build
NoTask == -1
\* AptUpdateStep.__init__, AptInstallStep.__init__: timeout=600
AptTimeout == 600
\* AptInstallStep.__init__: self._cmd = None
NoCmd == "None"

\* the command of a step (one shell command is enough: the build loop never
\* looks into it)
Commands == {"cmd"}

\* what the shell hands to out_fn: a line with its newline, and the empty
\* string read at EOF
Lines == {<<"a", "\n">>, <<>>}

VARIABLES
    plugins,        \* self.plugins: the loaded plugins
    dind,           \* platform, _is_dind, _dind_volume, docker run options
    builders,       \* the builders that share a workdir, their phases
    fs,             \* the derived workdirs, and who copied into each
    conf,           \* self.conf: the builder config (name, plugins, steps)
    container,      \* the container of a DockerContainerBuilder ("off": plain Builder)
    docker_cmds,    \* the docker commands issued so far, in order
    steps,          \* self.steps: the materialized step list
    remove_env,     \* self.remove_env
    pc,             \* where Builder.build() is
    index,          \* index of the for loop of _do_build
    build_status,   \* local build_status of _do_build
    build_info,     \* the build_info that _do_build returns (NoStatus until then)
    step_info,      \* the step_info dict of the current step
    next_uuid,      \* uuid4(): the next fresh uuid
    step_output_buff,                \* self._step_output_buff
    current_step_output_index,       \* self._current_step_output_index
    current_step_output_buff_len,    \* self._current_step_output_buff_len
    task,           \* the asyncio task running step.execute()
    build_tasks,    \* manager's registry entry for this build_uuid
    sent,           \* the messages handed to manager.send_info, in call order
    tmp_dir,        \* does the derived workdir exist
    exited,         \* has __aexit__ run
    out_fn_lines,   \* the lines handed to out_fn in the current step
    line_count,     \* lines written so far by the commands of the build
    executed,       \* indexes of the steps whose command was given to the shell
    cancelled_index \* index of the step whose registered task was cancelled

vars == <<plugins, dind, builders, fs, conf, container,
          docker_cmds, steps, remove_env, pc, index, build_status, build_info, step_info,
          next_uuid, step_output_buff, current_step_output_index,
          current_step_output_buff_len, task, build_tasks, sent, tmp_dir,
          exited, out_fn_lines, line_count, executed, cancelled_index>>

(* ---------------- text ---------------- *)
RECURSIVE Join(_)
\* ''.join(list of strings)
Join(ss) == IF ss = <<>> THEN <<>> ELSE Head(ss) \o Join(Tail(ss))

RECURSIVE LStrip(_)
LStrip(s) == IF s # <<>> /\ Head(s) = "\n" THEN LStrip(Tail(s)) ELSE s

RECURSIVE RStrip(_)
RStrip(s) == IF s # <<>> /\ s[Len(s)] = "\n"
             THEN RStrip(SubSeq(s, 1, Len(s) - 1)) ELSE s

\* str.strip('\n')
Strip(s) == RStrip(LStrip(s))

\* the texts of the buffered lines
BuffTexts(buff) == [i \in 1..Len(buff) |-> buff[i].line]
\* the line_index of the buffered lines
BuffIndexes(buff) == [i \in 1..Len(buff) |-> buff[i].line_index]

(* ---------------- BuildStep ---------------- *)
\* BuildStep.__init__
BuildStep(name, command, warning_on_fail, timeout, stop_on_fail) ==
    [name |-> name, command |-> command, warning_on_fail |-> warning_on_fail,
     timeout |-> timeout, stop_on_fail |-> stop_on_fail]

\* the steps a config describes with a dict
BuildSteps == {BuildStep("step", c, w, DefaultTimeout, s) :
                  c \in Commands, w \in BOOLEAN, s \in BOOLEAN}

(* ---------------- plugins ---------------- *)
\* AptUpdateStep.__init__
AptUpdateStep ==
    BuildStep("Updating apt packages list", "sudo apt-get update", FALSE,
              AptTimeout, TRUE)

\* AptInstallStep.__init__: a BuildStep that also carries install_cmd,
\* reconf_cmd and _cmd (cmd, NoCmd for None)
AptInstallStep(packages) ==
    [name |-> "Installing packages with apt-get",
     command |-> "sudo apt-get install -y " \o packages,
     warning_on_fail |-> FALSE, timeout |-> AptTimeout, stop_on_fail |-> TRUE,
     install_cmd |-> "sudo apt-get install -y " \o packages,
     reconf_cmd |-> "sudo dpkg-reconfigure " \o packages,
     cmd |-> NoCmd]

\* is the step an AptInstallStep, whose get_command asks the shell
IsAptInstallStep(step) == "install_cmd" \in DOMAIN step

\* AptInstallStep.get_command: the command chosen by what dpkg reports
AptGetCommand(step, installed) ==
    LET c == IF ~installed THEN step.install_cmd ELSE step.reconf_cmd
    IN [step EXCEPT !.cmd = c, !.command = c]

\* AptInstallPlugin.get_steps_before
AptStepsBefore(pdict) == <<AptUpdateStep, AptInstallStep(pdict.packages)>>

\* PythonCreateVenvStep.__init__: a BuildStep that also carries venv_dir
PythonCreateVenvStep(pyversion) ==
    [name |-> "Create virtualenv",
     command |-> "mkdir -p data_dir && " \o pyversion \o " -m venv venv_dir",
     warning_on_fail |-> FALSE, timeout |-> DefaultTimeout,
     stop_on_fail |-> TRUE, venv_dir |-> "venv_dir"]

\* is the step a PythonCreateVenvStep, whose execute looks for the venv
IsCreateVenvStep(step) == "venv_dir" \in DOMAIN step

\* PythonCreateVenvStep.execute: the outcome when the venv exists
VenvExistsOutcome ==
    [status |-> "success", output |-> <<"venv exists. Skipping...">>]

\* PythonVenvPlugin.get_steps_before (the command of install_deps after
\* command.strip(' '))
VenvStepsBefore(pdict) ==
    <<PythonCreateVenvStep(pdict.pyversion),
      BuildStep("install dependencies using pip",
                "pip install -r requirements.txt", FALSE, DefaultTimeout,
                TRUE)>>

\* PythonVenvPlugin.get_steps_after
VenvStepsAfter(pdict) ==
    IF pdict.remove_env
    THEN <<BuildStep("remove venv", "rm -rf venv_dir", FALSE, DefaultTimeout,
                     FALSE)>>
    ELSE <<>>

\* the plugin dicts of a config: the apt-install plugin, the python-venv
\* plugin, and an entry that lacks the name key
AptPluginDict == [name |-> "apt-install", packages |-> "pkg"]
VenvPluginDict(rm_venv) ==
    [name |-> "python-venv", pyversion |-> "python3", remove_env |-> rm_venv]
NamelessPluginDict == [packages |-> "pkg"]
PluginConfigs == {<<>>, <<AptPluginDict>>, <<VenvPluginDict(TRUE)>>,
                  <<VenvPluginDict(FALSE)>>,
                  <<AptPluginDict, VenvPluginDict(FALSE)>>,
                  <<VenvPluginDict(FALSE), AptPluginDict>>,
                  <<NamelessPluginDict>>,
                  <<AptPluginDict, NamelessPluginDict>>}

\* self.slave_plugin.get_plugin(pdict['name']): the plugin class of an entry
PluginClass(pdict) ==
    IF "name" \in DOMAIN pdict THEN pdict.name ELSE "KeyError"

\* plugin.get_steps_before() of the plugin of an entry
StepsBefore(pdict) ==
    CASE PluginClass(pdict) = "apt-install" -> AptStepsBefore(pdict)
      [] PluginClass(pdict) = "python-venv" -> VenvStepsBefore(pdict)
      [] OTHER -> <<>>

\* plugin.get_steps_after() of the plugin of an entry (SlavePlugin returns
\* [] for the apt-install plugin)
StepsAfter(pdict) ==
    CASE PluginClass(pdict) = "python-venv" -> VenvStepsAfter(pdict)
      [] OTHER -> <<>>

\* variant of BadPluginConfig: only the first entry is looked at
BadPluginConfig_FirstOnly(plugins_config) ==
    Len(plugins_config) > 0 /\ "name" \notin DOMAIN plugins_config[1]

\* _load_plugins: pdict['name'] raises KeyError for some entry, which is
\* turned into BadPluginConfig
BadPluginConfig(plugins_config) ==
    \E i \in 1..Len(plugins_config) : "name" \notin DOMAIN plugins_config[i]

RECURSIVE PluginStepsBefore(_)
\* _get_steps: plugin_before, the steps the plugins put before the steps
\* of the config
PluginStepsBefore(plugins_config) ==
    IF plugins_config = <<>> THEN <<>>
    ELSE StepsBefore(Head(plugins_config))
            \o PluginStepsBefore(Tail(plugins_config))

RECURSIVE PluginStepsAfter(_)
\* _get_steps: plugin_after, the steps the plugins put after the steps of
\* the config
PluginStepsAfter(plugins_config) ==
    IF plugins_config = <<>> THEN <<>>
    ELSE StepsAfter(Head(plugins_config))
            \o PluginStepsAfter(Tail(plugins_config))

\* _get_steps: an entry of conf['steps'] is a string ([str |-> s] here) or
\* a dict; a string becomes {'name': s, 'command': s}
StepFromConf(sdict) ==
    IF "str" \in DOMAIN sdict
    THEN BuildStep(sdict.str, sdict.str, FALSE, DefaultTimeout, FALSE)
    ELSE BuildStep(sdict.name, sdict.command, sdict.warning_on_fail,
                   sdict.timeout, sdict.stop_on_fail)

\* _get_steps: the steps of the config
UserSteps(conf_steps) ==
    [i \in 1..Len(conf_steps) |-> StepFromConf(conf_steps[i])]

\* variant of GetSteps: the steps after are put before the steps of the
\* config
GetSteps_AfterBeforeUser(c) ==
    PluginStepsBefore(c.plugins) \o PluginStepsAfter(c.plugins)
        \o UserSteps(c.steps)

\* _get_steps
GetSteps(c) ==
    PluginStepsBefore(c.plugins) \o UserSteps(c.steps)
        \o PluginStepsAfter(c.plugins)

\* '{} has timed out in {} seconds'.format(self.command, self.timeout)
TimedOutOutput(step) ==
    <<step.command, " has timed out in ", ToString(step.timeout), " seconds">>

CancelledOutput == <<"Build cancelled">>

\* variant of Classify: a timeout handled like a failed command
Classify_TimeoutAsFail(step, shell) ==
    CASE shell.kind = "exit0"          -> [status |-> "success", output |-> shell.output]
      [] shell.kind = "ExecCmdError"   -> [status |-> "fail", output |-> shell.output]
      [] shell.kind = "TimeoutError"   -> [status |-> "fail", output |-> shell.output]
      [] shell.kind = "CancelledError" -> [status |-> "cancelled", output |-> CancelledOutput]

\* BuildStep.execute, the try/except: the outcome of the shell classified
\* as {status, output}; shell is [kind, output]
Classify(step, shell) ==
    CASE shell.kind = "exit0"          -> [status |-> "success", output |-> shell.output]
      [] shell.kind = "ExecCmdError"   -> [status |-> "fail", output |-> shell.output]
      [] shell.kind = "TimeoutError"   -> [status |-> "exception", output |-> TimedOutOutput(step)]
      [] shell.kind = "CancelledError" -> [status |-> "cancelled", output |-> CancelledOutput]

\* variant of Promote: only fail is promoted
Promote_FailOnly(step, status) ==
    IF step.warning_on_fail /\ status = "fail" THEN "warning" ELSE status

\* BuildStep.execute, warning promotion
Promote(step, status) ==
    IF step.warning_on_fail /\ status \in {"fail", "exception"}
    THEN "warning" ELSE status

(* ---------------- messages ---------------- *)
\* the build_info dict of _do_build
BuildInfoMsg(status, total_steps) ==
    [info_type |-> "build_info", status |-> status, index |-> None,
     uuid |-> None, output_index |-> None, output |-> <<>>, lines |-> <<>>,
     total_steps |-> total_steps, cmd |-> NoCmd, name |-> NoCmd]

\* variant of StepInfoMsg: the index of the loop is not carried
StepInfoMsg_NoIndex(status, idx, uuid, output) ==
    [info_type |-> "step_info", status |-> status, index |-> 0,
     uuid |-> uuid, output_index |-> None, output |-> output, lines |-> <<>>,
     total_steps |-> None, cmd |-> NoCmd, name |-> NoCmd]

\* the step_info dict of _do_build
StepInfoMsg(status, idx, uuid, output) ==
    [info_type |-> "step_info", status |-> status, index |-> idx,
     uuid |-> uuid, output_index |-> None, output |-> output, lines |-> <<>>,
     total_steps |-> None, cmd |-> NoCmd, name |-> NoCmd]

\* variant of NextOutputIndex: the increment is missing
NextOutputIndex_NoIncrement(cur) == IF cur = None THEN 0 ELSE cur

\* _flush_step_output_buff: the next output index
NextOutputIndex(cur) == IF cur = None THEN 0 ELSE cur + 1

\* _flush_step_output_buff: the message; lines is the line_index of the
\* lines it was joined from
StepOutputInfoMsg(uuid, output_index, buff) ==
    [info_type |-> "step_output_info", status |-> NoStatus, index |-> None,
     uuid |-> uuid, output_index |-> output_index,
     output |-> Strip(Join(BuffTexts(buff))), lines |-> BuffIndexes(buff),
     total_steps |-> None, cmd |-> NoCmd, name |-> NoCmd]

\* _send_step_output_info: does the buffer have to be flushed
MustFlush(buff_len) == buff_len > STEP_OUTPUT_BUFF_LEN

\* variant of Aggregate: the status of the last step wins
Aggregate_Last(bstatus, status) == status

\* _do_build: the aggregation of the step statuses
Aggregate(bstatus, status) ==
    IF bstatus = NoStatus \/ bstatus = "success" THEN status ELSE bstatus

\* variant of BreakLoop: stop_on_fail looks at fail only
BreakLoop_FailOnly(step, status) ==
    \/ status = "cancelled"
    \/ status = "fail" /\ step.stop_on_fail

\* variant of BreakLoop: a cancelled step does not stop the loop
BreakLoop_NoCancelBreak(step, status) ==
    status \in {"fail", "exception"} /\ step.stop_on_fail

\* variant of BreakLoop: a failed step stops the loop whatever stop_on_fail
BreakLoop_AnyFail(step, status) ==
    \/ status = "cancelled"
    \/ status \in {"fail", "exception"}

\* variant of BreakLoop: a cancelled step stops the loop only with
\* stop_on_fail
BreakLoop_CancelNeedsStopOnFail(step, status) ==
    status \in {"cancelled", "fail", "exception"} /\ step.stop_on_fail

\* variant of BreakLoop: stop_on_fail looks at the promoted status too
BreakLoop_WarningStops(step, status) ==
    \/ status = "cancelled"
    \/ status \in {"fail", "exception", "warning"} /\ step.stop_on_fail

\* _do_build: the two breaks of the loop
BreakLoop(step, status) ==
    \/ status = "cancelled"
    \/ status \in {"fail", "exception"} /\ step.stop_on_fail

(* ---------------- the task ---------------- *)
NoTaskRec == [state |-> "none", must_cancel |-> FALSE, raw |-> NoStatus,
              shell |-> "none", result |-> [status |-> NoStatus, output |-> <<>>]]

NoStepInfo == StepInfoMsg(NoStatus, None, None, <<>>)

StepLists == UNION {[1..n -> BuildSteps] : n \in 0..MaxSteps}

\* the name every single builder is given
BuilderName == "b1"

\* the attributes of a plain Builder where a DockerContainerBuilder has its
\* platform and docker-in-docker attributes
NoDind == [platform |-> <<>>, is_dind |-> FALSE, dind_volume |-> FALSE,
           repo_id |-> "", opts |-> <<>>]

\* one plain Builder: no docker attributes, no other builder on its workdir
OneBuilder ==
    /\ dind = NoDind
    /\ builders = <<>>
    /\ fs = {}

\* everything but the config, the step list and the position, as
\* Builder.__init__ leaves it
InitBuilder ==
    /\ remove_env \in BOOLEAN
    /\ index = 0
    /\ build_status = NoStatus
    /\ build_info = BuildInfoMsg(NoStatus, None)
    /\ step_info = NoStepInfo
    /\ next_uuid = 0
    /\ step_output_buff = <<>>
    /\ current_step_output_index = None
    /\ current_step_output_buff_len = 0
    /\ task = NoTaskRec
    /\ build_tasks = NoTask
    /\ sent = <<>>
    /\ tmp_dir = FALSE
    /\ exited = FALSE
    /\ out_fn_lines = <<>>
    /\ line_count = 0
    /\ executed = {}
    /\ cancelled_index = None
    /\ docker_cmds = <<>>

\* a Builder constructed from a config without plugins, before build()
Init ==
    /\ steps \in StepLists
    /\ conf = [name |-> BuilderName, plugins |-> <<>>, steps |-> steps]
    /\ plugins = <<>>
    /\ container = "off"
    /\ pc = "mkdir"
    /\ OneBuilder
    /\ InitBuilder

(* ---------------- Builder.build ---------------- *)
\* the step at index i of the for loop (Python indexes from 0)
StepAt(i) == steps[i + 1]

\* _clear_step_output_buff, then the flush: what _flush_step_output_buff
\* hands to send_info
FlushMsg(uuid) ==
    StepOutputInfoMsg(uuid, NextOutputIndex(current_step_output_index),
                      step_output_buff)

\* variant of Finalize: total_steps counts the steps that were executed
Finalize_CountsExecuted(bstatus) ==
    /\ build_status' = bstatus
    /\ build_info' = BuildInfoMsg(bstatus, Cardinality(executed))
    /\ pc' = "aexit"
    /\ UNCHANGED <<index, step_info, next_uuid, step_output_buff,
                   current_step_output_index, current_step_output_buff_len,
                   sent>>

\* _do_build, lines 218-223, and the way out of `async with`: the build_info
\* is ready and __aexit__ is entered
Finalize(bstatus) ==
    /\ build_status' = bstatus
    /\ build_info' = BuildInfoMsg(bstatus, Len(steps))
    /\ pc' = "aexit"
    /\ UNCHANGED <<index, step_info, next_uuid, step_output_buff,
                   current_step_output_index, current_step_output_buff_len,
                   sent>>

\* _do_build, lines 153-170: the head of the loop for index i, up to the
\* await of send_info(step_info); cmd is what step.get_command() returned
StartStep(i, bstatus, cmd) ==
    /\ build_status' = bstatus
    /\ index' = i
    /\ step_output_buff' = <<>>
    /\ current_step_output_index' = None
    /\ current_step_output_buff_len' = 0
    /\ step_info' = [StepInfoMsg("running", i, next_uuid, <<>>)
                         EXCEPT !.cmd = cmd, !.name = steps[i + 1].name]
    /\ next_uuid' = next_uuid + 1
    /\ sent' = Append(sent, step_info')
    /\ pc' = "send_step_info"
    /\ UNCHANGED build_info

\* _do_build, lines 153-155, for a step whose get_command awaits the shell
\* (AptInstallStep): the buffer is cleared and the builder is suspended in
\* step.get_command()
AwaitGetCommand(i, bstatus) ==
    /\ build_status' = bstatus
    /\ index' = i
    /\ step_output_buff' = <<>>
    /\ current_step_output_index' = None
    /\ current_step_output_buff_len' = 0
    /\ pc' = "get_command"
    /\ UNCHANGED <<build_info, step_info, next_uuid, sent>>

\* the for statement: the next step, or the end of the loop
ContinueLoop(i, bstatus) ==
    IF i < Len(steps)
    THEN IF IsAptInstallStep(steps[i + 1])
         THEN AwaitGetCommand(i, bstatus)
         ELSE StartStep(i, bstatus, steps[i + 1].command)
    ELSE Finalize(bstatus)

\* variant of RaiseInBody: the exception skips __aexit__
RaiseInBody_SkipsExit == pc' = "raised"

\* Builder.build: an exception raised by _do_build inside `async with`
\* enters __aexit__ before it leaves build()
RaiseInBody == pc' = "aexit_exc"

\* _copy_workdir: mkdir -p <tmp_dir>
MkdirWorkdir ==
    /\ pc = "mkdir"
    /\ tmp_dir' = TRUE
    /\ pc' = "cp"
    /\ UNCHANGED <<plugins, dind, builders, fs, conf,
                   container, docker_cmds, steps,
                   remove_env, index, build_status, build_info,
                   step_info, next_uuid, step_output_buff,
                   current_step_output_index, current_step_output_buff_len,
                   task, build_tasks, sent, exited, out_fn_lines, line_count,
                   executed, cancelled_index>>

\* _copy_workdir: cp -R; __aenter__ returns and _do_build runs up to the
\* await of send_info(build_info)
CopyWorkdir ==
    /\ pc = "cp"
    /\ sent' = Append(sent, BuildInfoMsg("running", None))
    /\ pc' = "send_build_info"
    /\ UNCHANGED <<plugins, dind, builders, fs, conf,
                   container, docker_cmds, steps,
                   remove_env, index, build_status, build_info,
                   step_info, next_uuid, step_output_buff,
                   current_step_output_index, current_step_output_buff_len,
                   task, build_tasks, tmp_dir, exited, out_fn_lines,
                   line_count, executed, cancelled_index>>

\* _copy_workdir: exec_cmd raises for mkdir or cp; __aenter__ raises, so
\* __aexit__ is not called and build() raises
CopyWorkdirFails ==
    /\ pc \in {"mkdir", "cp"}
    /\ pc' = "raised"
    /\ UNCHANGED <<plugins, dind, builders, fs, conf,
                   container, docker_cmds, steps,
                   remove_env, index, build_status, build_info,
                   step_info, next_uuid, step_output_buff,
                   current_step_output_index, current_step_output_buff_len,
                   task, build_tasks, sent, tmp_dir, exited, out_fn_lines,
                   line_count, executed, cancelled_index>>

\* send_info(build_info) returns: _do_build, lines 150-153
BuildInfoSent ==
    /\ pc = "send_build_info"
    /\ ContinueLoop(0, NoStatus)
    /\ UNCHANGED <<plugins, dind, builders, fs, conf,
                   container, docker_cmds, steps,
                   remove_env, task, build_tasks, tmp_dir, exited,
                   out_fn_lines, line_count, executed, cancelled_index>>

\* send_info(step_info) returns: _do_build, lines 172-183: the task is
\* created and registered, and the builder awaits it
StepInfoSent ==
    /\ pc = "send_step_info"
    /\ task' = [NoTaskRec EXCEPT !.state = "created"]
    /\ build_tasks' = index
    /\ out_fn_lines' = <<>>
    /\ pc' = "await_task"
    /\ UNCHANGED <<plugins, dind, builders, fs, conf,
                   container, docker_cmds, steps,
                   remove_env, index, build_status, build_info,
                   step_info, next_uuid, step_output_buff,
                   current_step_output_index, current_step_output_buff_len,
                   sent, tmp_dir, exited, line_count, executed,
                   cancelled_index>>

\* variant of RmBuildTask: the entry stays in the registry
RmBuildTask_Skipped == UNCHANGED build_tasks

\* type(self.manager).rm_build_task(self.build_uuid)
RmBuildTask == build_tasks' = NoTask

\* `await task` returns the outcome: _do_build, lines 185-187, up to the
\* await of send_info in the final flush
TaskReturned ==
    /\ pc = "await_task"
    /\ task.state = "returned"
    /\ RmBuildTask
    /\ step_info' = [step_info EXCEPT !.status = task.result.status,
                                      !.output = task.result.output]
    /\ current_step_output_index' = NextOutputIndex(current_step_output_index)
    /\ sent' = Append(sent, FlushMsg(step_info.uuid))
    /\ pc' = "final_flush"
    /\ UNCHANGED <<plugins, dind, builders, fs, conf,
                   container, docker_cmds, steps,
                   remove_env, index, build_status, build_info,
                   next_uuid, step_output_buff, current_step_output_buff_len,
                   task, tmp_dir, exited, out_fn_lines, line_count, executed,
                   cancelled_index>>

\* `await task` raises what the task raised: the exception leaves _do_build
\* at line 183 and __aexit__ is entered
TaskRaised ==
    /\ pc = "await_task"
    /\ task.state = "raised"
    /\ RaiseInBody
    /\ UNCHANGED <<plugins, dind, builders, fs, conf,
                   container, docker_cmds, steps,
                   remove_env, index, build_status, build_info,
                   step_info, next_uuid, step_output_buff,
                   current_step_output_index, current_step_output_buff_len,
                   task, build_tasks, sent, tmp_dir, exited, out_fn_lines,
                   line_count, executed, cancelled_index>>

\* send_info of the final flush returns: _flush_step_output_buff, lines
\* 252-253, then _do_build, lines 189-202, up to the await of the terminal
\* send_info(step_info)
FinalFlushSent ==
    /\ pc = "final_flush"
    /\ step_output_buff' = <<>>
    /\ current_step_output_buff_len' = 0
    /\ sent' = Append(sent, step_info)
    /\ pc' = "send_terminal"
    /\ UNCHANGED <<plugins, dind, builders, fs, conf,
                   container, docker_cmds, steps,
                   remove_env, index, build_status, build_info,
                   step_info, next_uuid, current_step_output_index, task,
                   build_tasks, tmp_dir, exited, out_fn_lines, line_count,
                   executed, cancelled_index>>

\* the terminal send_info(step_info) returns: _do_build, lines 204-216, and
\* then the next turn of the loop or its end
TerminalSent ==
    /\ pc = "send_terminal"
    /\ IF BreakLoop(StepAt(index), step_info.status)
       THEN Finalize(Aggregate(build_status, step_info.status))
       ELSE ContinueLoop(index + 1, Aggregate(build_status, step_info.status))
    /\ UNCHANGED <<plugins, dind, builders, fs, conf,
                   container, docker_cmds, steps,
                   remove_env, task, build_tasks, tmp_dir, exited,
                   out_fn_lines, line_count, executed, cancelled_index>>

\* __aexit__: the derived workdir is removed iff remove_env; build() then
\* returns build_info, or lets the exception of _do_build through
Exit ==
    /\ pc \in {"aexit", "aexit_exc"}
    /\ container = "off"
    /\ tmp_dir' = IF remove_env THEN FALSE ELSE tmp_dir
    /\ exited' = TRUE
    /\ pc' = IF pc = "aexit" THEN "done" ELSE "raised"
    /\ UNCHANGED <<plugins, dind, builders, fs, conf,
                   container, docker_cmds, steps,
                   remove_env, index, build_status, build_info,
                   step_info, next_uuid, step_output_buff,
                   current_step_output_index, current_step_output_buff_len,
                   task, build_tasks, sent, out_fn_lines, line_count,
                   executed, cancelled_index>>

(* ---------------- the task of BuildStep.execute ---------------- *)
\* what exec_cmd returns, or carries in its ExecCmdError: the accumulated
\* output of the command
ShellOutput(lines) == Strip(Join(BuffTexts(lines)))

\* execute, lines 360-366: the outcome returned for a classified status
Outcome(step, shell) ==
    [status |-> Promote(step, Classify(step, shell).status),
     output |-> Classify(step, shell).output]

\* the first run of the task.  A task cancelled before its first run gets
\* the CancelledError thrown at the first line of execute, outside of its
\* try: the task ends cancelled.  Otherwise execute runs up to the await in
\* exec_cmd.
TaskStart ==
    /\ pc = "await_task"
    /\ task.state = "created"
    /\ IF task.must_cancel
       THEN /\ task' = [task EXCEPT !.state = "raised", !.must_cancel = FALSE]
            /\ UNCHANGED executed
       ELSE /\ task' = [task EXCEPT !.state = "exec"]
            /\ executed' = executed \cup {index}
    /\ UNCHANGED <<plugins, dind, builders, fs, conf,
                   container, docker_cmds, steps,
                   remove_env, pc, index, build_status, build_info,
                   step_info, next_uuid, step_output_buff,
                   current_step_output_index, current_step_output_buff_len,
                   build_tasks, sent, tmp_dir, exited, out_fn_lines,
                   line_count, cancelled_index>>

\* the command writes a line and exec_cmd awaits out_fn(line_index, line):
\* _send_step_output_info, and _flush_step_output_buff up to its await
ShellLine(line) ==
    /\ pc = "await_task"
    /\ task.state = "exec"
    /\ ~task.must_cancel
    /\ line_count < MaxLines
    /\ line_count' = line_count + 1
    /\ LET rec == [line_index |-> Len(out_fn_lines), line |-> line]
           buff == Append(step_output_buff, rec)
           blen == current_step_output_buff_len + Len(line)
       IN /\ out_fn_lines' = Append(out_fn_lines, rec)
          /\ step_output_buff' = buff
          /\ current_step_output_buff_len' = blen
          /\ IF MustFlush(blen)
             THEN /\ current_step_output_index' =
                         NextOutputIndex(current_step_output_index)
                  /\ sent' = Append(sent, StepOutputInfoMsg(
                         step_info.uuid,
                         NextOutputIndex(current_step_output_index), buff))
                  /\ task' = [task EXCEPT !.state = "flush"]
             ELSE UNCHANGED <<current_step_output_index, sent, task>>
    /\ UNCHANGED <<plugins, dind, builders, fs, conf,
                   container, docker_cmds, steps,
                   remove_env, pc, index, build_status, build_info,
                   step_info, next_uuid, build_tasks, tmp_dir, exited,
                   executed, cancelled_index>>

\* send_info returns in _flush_step_output_buff: lines 252-253, and the
\* task is back in exec_cmd
FlushSent ==
    /\ pc = "await_task"
    /\ task.state = "flush"
    /\ ~task.must_cancel
    /\ step_output_buff' = <<>>
    /\ current_step_output_buff_len' = 0
    /\ task' = [task EXCEPT !.state = "exec"]
    /\ UNCHANGED <<plugins, dind, builders, fs, conf,
                   container, docker_cmds, steps,
                   remove_env, pc, index, build_status, build_info,
                   step_info, next_uuid, current_step_output_index,
                   build_tasks, sent, tmp_dir, exited, out_fn_lines,
                   line_count, executed, cancelled_index>>

\* exec_cmd ends: it returns the output (exit code 0), raises ExecCmdError
\* (another exit code) or asyncio.TimeoutError; execute returns the outcome
ShellEnds(kind) ==
    /\ pc = "await_task"
    /\ task.state = "exec"
    /\ ~task.must_cancel
    /\ LET shell == [kind |-> kind, output |-> ShellOutput(out_fn_lines)]
       IN task' = [task EXCEPT !.state = "returned", !.shell = kind,
                       !.raw = Classify(StepAt(index), shell).status,
                       !.result = Outcome(StepAt(index), shell)]
    /\ UNCHANGED <<plugins, dind, builders, fs, conf,
                   container, docker_cmds, steps,
                   remove_env, pc, index, build_status, build_info,
                   step_info, next_uuid, step_output_buff,
                   current_step_output_index, current_step_output_buff_len,
                   build_tasks, sent, tmp_dir, exited, out_fn_lines,
                   line_count, executed, cancelled_index>>

\* the cancelled task runs again: CancelledError is raised at the await it
\* was suspended in (in exec_cmd, or in send_info under out_fn), and is
\* caught by execute, which returns the outcome
TaskCancelled ==
    /\ pc = "await_task"
    /\ task.state \in {"exec", "flush"}
    /\ task.must_cancel
    /\ LET shell == [kind |-> "CancelledError", output |-> <<>>]
       IN task' = [task EXCEPT !.state = "returned", !.must_cancel = FALSE,
                       !.shell = "CancelledError",
                       !.raw = Classify(StepAt(index), shell).status,
                       !.result = Outcome(StepAt(index), shell)]
    /\ UNCHANGED <<plugins, dind, builders, fs, conf,
                   container, docker_cmds, steps,
                   remove_env, pc, index, build_status, build_info,
                   step_info, next_uuid, step_output_buff,
                   current_step_output_index, current_step_output_buff_len,
                   build_tasks, sent, tmp_dir, exited, out_fn_lines,
                   line_count, executed, cancelled_index>>

(* ---------------- the manager ---------------- *)
\* the manager cancels the task it finds in its registry for the build;
\* cancel() of a task that is done changes nothing
CancelBuild ==
    /\ build_tasks # NoTask
    /\ task.state \in {"created", "exec", "flush"}
    /\ ~task.must_cancel
    /\ task' = [task EXCEPT !.must_cancel = TRUE]
    /\ cancelled_index' = build_tasks
    /\ UNCHANGED <<plugins, dind, builders, fs, conf,
                   container, docker_cmds, steps,
                   remove_env, pc, index, build_status, build_info,
                   step_info, next_uuid, step_output_buff,
                   current_step_output_index, current_step_output_buff_len,
                   build_tasks, sent, tmp_dir, exited, out_fn_lines,
                   line_count, executed>>

Next ==
    \/ MkdirWorkdir
    \/ CopyWorkdir
    \/ CopyWorkdirFails
    \/ BuildInfoSent
    \/ StepInfoSent
    \/ TaskStart
    \/ \E line \in Lines : ShellLine(line)
    \/ FlushSent
    \/ \E kind \in {"exit0", "ExecCmdError", "TimeoutError"} : ShellEnds(kind)
    \/ TaskCancelled
    \/ TaskReturned
    \/ TaskRaised
    \/ FinalFlushSent
    \/ TerminalSent
    \/ Exit
    \/ CancelBuild

Spec == Init /\ [][Next]_vars

(* ---------------- construction and plugin steps ---------------- *)
\* the entries of conf['steps']: dicts (with and without stop_on_fail), and
\* a bare string
ConfStepEntries ==
    {BuildStep("step", c, FALSE, DefaultTimeout, s) :
        c \in Commands, s \in BOOLEAN}
      \cup {[str |-> c] : c \in Commands}

\* the steps of a config
ConfStepLists == UNION {[1..n -> ConfStepEntries] : n \in 0..(MaxSteps - 1)}

\* the configs a Builder is constructed from: those whose plugin entries
\* all have a name give at most MaxSteps + 2 steps (two plugins bring
\* four)
Confs == {c \in [name : {BuilderName}, plugins : PluginConfigs,
                  steps : ConfStepLists] :
             (\A i \in 1..Len(c.plugins) : "name" \in DOMAIN c.plugins[i])
                 => Len(PluginStepsBefore(c.plugins)) + Len(c.steps)
                      + Len(PluginStepsAfter(c.plugins)) <= MaxSteps + 2}

\* before Builder.__init__
InitConf ==
    /\ conf \in Confs
    /\ steps = <<>>
    /\ plugins = <<>>
    /\ container = "off"
    /\ pc = "construct"
    /\ OneBuilder
    /\ InitBuilder

\* SlavePlugin.data_dir of a plugin whose _data_dir was never set
DataDir(name) == "PLUGINS_DATA_DIR/" \o name

\* Builder._load_plugins: one plugin object for each entry of the config
LoadPlugins(plugins_config) ==
    [j \in 1..Len(plugins_config) |->
        [name |-> PluginClass(plugins_config[j]),
         data_dir |-> DataDir(PluginClass(plugins_config[j]))]]

\* Builder.__init__: the plugins are loaded and the step list is built
\* (the `del pdict['name']` of _load_plugins is not tracked: the config is
\* not read again)
Construct ==
    /\ pc = "construct"
    /\ ~BadPluginConfig(conf.plugins)
    /\ plugins' = LoadPlugins(conf.plugins)
    /\ steps' = GetSteps(conf)
    /\ pc' = "mkdir"
    /\ UNCHANGED <<dind, builders, fs, conf,
                   container, docker_cmds, remove_env, index,
                   build_status, build_info, step_info, next_uuid,
                   step_output_buff, current_step_output_index,
                   current_step_output_buff_len, task, build_tasks, sent,
                   tmp_dir, exited, out_fn_lines, line_count, executed,
                   cancelled_index>>

\* Builder.__init__: _load_plugins raises BadPluginConfig; there is no
\* Builder to call build() on
ConstructRaises ==
    /\ pc = "construct"
    /\ BadPluginConfig(conf.plugins)
    /\ pc' = "BadPluginConfig"
    /\ UNCHANGED <<plugins, dind, builders, fs, conf,
                   container, docker_cmds, steps, remove_env, index,
                   build_status, build_info, step_info, next_uuid,
                   step_output_buff, current_step_output_index,
                   current_step_output_buff_len, task, build_tasks, sent,
                   tmp_dir, exited, out_fn_lines, line_count, executed,
                   cancelled_index>>

\* AptInstallStep.get_command returns: the step has its command, and
\* _do_build runs on, lines 156-170, up to the await of send_info(step_info)
GetCommandReturns(installed) ==
    /\ pc = "get_command"
    /\ steps' = [steps EXCEPT ![index + 1] = AptGetCommand(@, installed)]
    /\ StartStep(index, build_status,
                 AptGetCommand(steps[index + 1], installed).command)
    /\ UNCHANGED <<plugins, dind, builders, fs, conf,
                   container, docker_cmds, remove_env, task,
                   build_tasks, tmp_dir, exited, out_fn_lines, line_count,
                   executed, cancelled_index>>

\* AptInstallStep._is_everything_installed raises (exec_cmd raises
\* ExecCmdError or asyncio.TimeoutError, or int() rejects the output): the
\* exception leaves _do_build at line 155
GetCommandRaises ==
    /\ pc = "get_command"
    /\ RaiseInBody
    /\ UNCHANGED <<plugins, dind, builders, fs, conf,
                   container, docker_cmds, steps, remove_env, index,
                   build_status, build_info, step_info, next_uuid,
                   step_output_buff, current_step_output_index,
                   current_step_output_buff_len, task, build_tasks, sent,
                   tmp_dir, exited, out_fn_lines, line_count, executed,
                   cancelled_index>>

\* PythonCreateVenvStep.execute, first run of the task: the venv exists
\* and the step returns success without giving its command to the shell
VenvExists ==
    /\ pc = "await_task"
    /\ task.state = "created"
    /\ ~task.must_cancel
    /\ IsCreateVenvStep(StepAt(index))
    /\ task' = [task EXCEPT !.state = "returned", !.shell = "skipped",
                    !.raw = "success", !.result = VenvExistsOutcome]
    /\ UNCHANGED <<plugins, dind, builders, fs, conf,
                   container, docker_cmds, steps, remove_env, pc, index,
                   build_status, build_info, step_info, next_uuid,
                   step_output_buff, current_step_output_index,
                   current_step_output_buff_len, build_tasks, sent, tmp_dir,
                   exited, out_fn_lines, line_count, executed,
                   cancelled_index>>

NextConf ==
    \/ Construct
    \/ VenvExists
    \/ ConstructRaises
    \/ \E installed \in BOOLEAN : GetCommandReturns(installed)
    \/ GetCommandRaises
    \/ Next

SpecConf == InitConf /\ [][NextConf]_vars

(* ---------------- DockerContainerBuilder ---------------- *)
\* variant of ExitCmds: the container is removed whatever remove_env
ExitCmds_AlwaysRm(rm_env) == <<"kill", "rm">>

\* __aexit__ of the container builder: kill_container, then rm_container
\* if remove_env, else rm_from_container
ExitCmds(rm_env) == <<"kill", IF rm_env THEN "rm" ELSE "rm_src">>

\* a platform name, as the sequence of its characters
Docker == <<"d", "o", "c", "k", "e", "r">>
DockerKube == Docker \o <<"k", "u", "b", "e">>
SomePlat == <<"s", "o", "m", "e", "-", "p", "l", "a", "t">>
LinuxGeneric == <<"l", "i", "n", "u", "x", "-", "g", "e", "n", "e", "r",
                  "i", "c">>
Dock == <<"d", "o", "c", "k">>
MyDocker == <<"m", "y">> \o Docker
Platforms == {Docker, DockerKube, SomePlat, LinuxGeneric, Dock, MyDocker}

\* str.startswith
StartsWith(str, prefix) ==
    /\ Len(str) >= Len(prefix)
    /\ SubSeq(str, 1, Len(prefix)) = prefix

\* variant: `'docker' in platform`
IsDind_Contains(platform) ==
    \E k \in 0..Len(platform) :
        /\ k + Len(Docker) <= Len(platform)
        /\ SubSeq(platform, k + 1, k + Len(Docker)) = Docker

\* DockerContainerBuilder._is_dind
IsDind(platform) == StartsWith(platform, Docker)

\* DockerContainerBuilder._get_dind_opts: the option string as its words
\* and blanks
GetDindOpts(d, name) ==
    IF ~d.is_dind THEN <<" ">>
    ELSE <<"--privileged", " ">>
           \o (IF d.dind_volume
               THEN <<"--mount", " ", "source=",
                      d.repo_id \o "-" \o name \o "-volume", ",",
                      "destination=/var/lib/docker/">>
               ELSE <<>>)

\* the data dir of the plugins inside the container
DockerPluginDataDir == "docker_plugin_data_dir"

\* DockerContainerBuilder._get_steps: the plugins get the data dir of the
\* container
DockerLoadPlugins(plugins_config) ==
    [j \in 1..Len(plugins_config) |->
        [LoadPlugins(plugins_config)[j]
            EXCEPT !.data_dir = DockerPluginDataDir]]

\* the name of the container of the build
CName == "cname"

\* variant: the container step is built with the default flags
FromBuildStep_DefaultFlags(step, container_name) ==
    [name |-> step.name, command |-> step.command,
     warning_on_fail |-> FALSE, timeout |-> step.timeout,
     stop_on_fail |-> FALSE, container_name |-> container_name]

\* BuildStepDocker.from_buildstep
FromBuildStep(step, container_name) ==
    [name |-> step.name, command |-> step.command,
     warning_on_fail |-> step.warning_on_fail, timeout |-> step.timeout,
     stop_on_fail |-> step.stop_on_fail, container_name |-> container_name]

\* DockerContainerBuilder._get_steps: the steps of Builder._get_steps, each
\* as a BuildStepDocker
DockerGetSteps(c) ==
    [i \in 1..Len(GetSteps(c)) |-> FromBuildStep(GetSteps(c)[i], CName)]

\* the entries of conf['steps'] of a DockerContainerBuilder: a dict with
\* warning_on_fail, a dict with stop_on_fail, and a bare string
DockerConfStepEntries ==
    {BuildStep("step", c, w, DefaultTimeout, ~w) :
        c \in Commands, w \in BOOLEAN}
      \cup {[str |-> c] : c \in Commands}

\* the step lists of the configs of a DockerContainerBuilder
DockerConfStepLists ==
    UNION {[1..n -> DockerConfStepEntries] : n \in 0..(MaxSteps - 1)}

\* the configs a DockerContainerBuilder is constructed from: without
\* plugins or with apt-install, at most MaxSteps steps
DockerConfs ==
    {c \in [name : {BuilderName}, plugins : {<<>>, <<AptPluginDict>>},
            steps : DockerConfStepLists] : Len(GetSteps(c)) <= MaxSteps}

\* before DockerContainerBuilder.__init__, on platform linux-generic; the
\* container does not exist yet, or was kept by an earlier build
InitDocker ==
    /\ conf \in DockerConfs
    /\ steps = <<>>
    /\ plugins = <<>>
    /\ dind = [NoDind EXCEPT !.platform = LinuxGeneric,
                             !.dind_volume = TRUE, !.repo_id = "i"]
    /\ builders = <<>>
    /\ fs = {}
    /\ container \in {"absent", "stopped"}
    /\ pc = "construct"
    /\ InitBuilder

\* DockerContainerBuilder.__init__: _is_dind is computed from the platform,
\* the plugins are loaded and the step list is built
DockerConstruct ==
    /\ pc = "construct"
    /\ ~BadPluginConfig(conf.plugins)
    /\ dind' = [dind EXCEPT !.is_dind = IsDind(dind.platform)]
    /\ plugins' = DockerLoadPlugins(conf.plugins)
    /\ steps' = DockerGetSteps(conf)
    /\ pc' = "start_container"
    /\ UNCHANGED <<builders, fs, conf, container, docker_cmds, remove_env,
                   index, build_status, build_info, step_info, next_uuid,
                   step_output_buff, current_step_output_index,
                   current_step_output_buff_len, task, build_tasks, sent,
                   tmp_dir, exited, out_fn_lines, line_count, executed,
                   cancelled_index>>

\* start_container: docker run when container_exists is false, docker start
\* otherwise; the container boots
StartContainer ==
    /\ pc = "start_container"
    /\ docker_cmds' = Append(docker_cmds,
                             IF container = "absent" THEN "run" ELSE "start")
    /\ dind' = IF container = "absent"
               THEN [dind EXCEPT !.opts = GetDindOpts(dind, conf.name)]
               ELSE dind
    /\ container' = "starting"
    /\ pc' = "wait_start"
    /\ UNCHANGED <<plugins, builders, fs, conf,
                   steps, remove_env, index, build_status, build_info,
                   step_info, next_uuid, step_output_buff,
                   current_step_output_index, current_step_output_buff_len,
                   task, build_tasks, sent, tmp_dir, exited, out_fn_lines,
                   line_count, executed, cancelled_index>>

\* the docker daemon: the started container is running
ContainerRuns ==
    /\ container = "starting"
    /\ container' = "running"
    /\ UNCHANGED <<docker_cmds, pc>>
    /\ UNCHANGED <<plugins, dind, builders, fs, conf,
                   steps, remove_env, index, build_status, build_info,
                   step_info, next_uuid, step_output_buff,
                   current_step_output_index, current_step_output_buff_len,
                   task, build_tasks, sent, tmp_dir, exited, out_fn_lines,
                   line_count, executed, cancelled_index>>

\* the image: the service of the running container is up
ServiceComesUp ==
    /\ container = "running"
    /\ container' = "up"
    /\ UNCHANGED <<docker_cmds, pc>>
    /\ UNCHANGED <<plugins, dind, builders, fs, conf,
                   steps, remove_env, index, build_status, build_info,
                   step_info, next_uuid, step_output_buff,
                   current_step_output_index, current_step_output_buff_len,
                   task, build_tasks, sent, tmp_dir, exited, out_fn_lines,
                   line_count, executed, cancelled_index>>

\* what a polling loop logs for a probe: the probe with its answer, and the
\* sleep that follows a false answer
ProbeCmds(probe, answer) ==
    IF answer THEN <<probe \o "_true">> ELSE <<probe \o "_false", "sleep">>

\* the sleeps of the polling loops so far
Sleeps == Cardinality({k \in 1..Len(docker_cmds) : docker_cmds[k] = "sleep"})

\* wait_start (called by start_container): is_running is probed, with a
\* sleep after each false answer, until it is true
WaitStart ==
    /\ pc = "wait_start"
    /\ LET answer == container \in {"running", "up"}
       IN /\ answer \/ Sleeps < MaxSleeps
          /\ docker_cmds' = docker_cmds \o ProbeCmds("is_running", answer)
          /\ pc' = IF answer THEN "wait_service" ELSE pc
    /\ UNCHANGED container
    /\ UNCHANGED <<plugins, dind, builders, fs, conf,
                   steps, remove_env, index, build_status, build_info,
                   step_info, next_uuid, step_output_buff,
                   current_step_output_index, current_step_output_buff_len,
                   task, build_tasks, sent, tmp_dir, exited, out_fn_lines,
                   line_count, executed, cancelled_index>>

\* __aenter__: wait_service probes service_is_up, with a sleep after each
\* false answer, until it is true
WaitService ==
    /\ pc = "wait_service"
    /\ LET answer == container = "up"
       IN /\ answer \/ Sleeps < MaxSleeps
          /\ docker_cmds' = docker_cmds \o ProbeCmds("service_is_up", answer)
          /\ pc' = IF answer THEN "copy2container" ELSE pc
    /\ UNCHANGED container
    /\ UNCHANGED <<plugins, dind, builders, fs, conf,
                   steps, remove_env, index, build_status, build_info,
                   step_info, next_uuid, step_output_buff,
                   current_step_output_index, current_step_output_buff_len,
                   task, build_tasks, sent, tmp_dir, exited, out_fn_lines,
                   line_count, executed, cancelled_index>>

\* variant of Copy2ContainerCmds: the chown comes first
Copy2ContainerCmds_ChownFirst == <<"chown", "cp">>

\* copy2container: docker cp of the workdir, then chown -R of the copy
Copy2ContainerCmds == <<"cp", "chown">>

\* __aenter__: copy2container; __aenter__ returns and _do_build runs up to
\* the await of send_info(build_info)
Copy2Container ==
    /\ pc = "copy2container"
    /\ docker_cmds' = docker_cmds \o Copy2ContainerCmds
    /\ sent' = Append(sent, BuildInfoMsg("running", None))
    /\ pc' = "send_build_info"
    /\ UNCHANGED <<plugins, dind, builders, fs, conf,
                   container, steps, remove_env, index, build_status,
                   build_info, step_info, next_uuid, step_output_buff,
                   current_step_output_index, current_step_output_buff_len,
                   task, build_tasks, tmp_dir, exited, out_fn_lines,
                   line_count, executed, cancelled_index>>

\* a lifecycle command of __aenter__ fails: the teardown is attempted and
\* the error leaves __aenter__, so build() raises without entering
\* _do_build
DockerEnterFails ==
    /\ pc \in {"start_container", "wait_start", "wait_service",
               "copy2container"}
    /\ docker_cmds' = docker_cmds \o ExitCmds(remove_env)
    /\ container' = IF container \in {"starting", "running", "up"}
                    THEN IF remove_env THEN "removed" ELSE "stopped"
                    ELSE container
    /\ pc' = "raised"
    /\ UNCHANGED <<plugins, dind, builders, fs, conf,
                   steps, remove_env, index, build_status, build_info,
                   step_info, next_uuid, step_output_buff,
                   current_step_output_index, current_step_output_buff_len,
                   task, build_tasks, sent, tmp_dir, exited, out_fn_lines,
                   line_count, executed, cancelled_index>>

\* __aexit__ of the container builder; build() then returns build_info, or
\* lets the exception of _do_build through
DockerExit ==
    /\ pc \in {"aexit", "aexit_exc"}
    /\ container # "off"
    /\ docker_cmds' = docker_cmds \o ExitCmds(remove_env)
    /\ container' = IF remove_env THEN "removed" ELSE "stopped"
    /\ exited' = TRUE
    /\ pc' = IF pc = "aexit" THEN "done" ELSE "raised"
    /\ UNCHANGED <<plugins, dind, builders, fs, conf,
                   steps, remove_env, index, build_status, build_info,
                   step_info, next_uuid, step_output_buff,
                   current_step_output_index, current_step_output_buff_len,
                   task, build_tasks, sent, tmp_dir, out_fn_lines, line_count,
                   executed, cancelled_index>>

\* manager.send_info raises under an await of _do_build (the manager has
\* lost its connection): the exception leaves _do_build
SendFails ==
    /\ pc \in {"send_build_info", "send_step_info", "final_flush",
               "send_terminal"}
    /\ RaiseInBody
    /\ UNCHANGED <<plugins, dind, builders, fs, conf,
                   container, docker_cmds, steps, remove_env, index,
                   build_status, build_info, step_info, next_uuid,
                   step_output_buff, current_step_output_index,
                   current_step_output_buff_len, task, build_tasks, sent,
                   tmp_dir, exited, out_fn_lines, line_count, executed,
                   cancelled_index>>

NextDocker ==
    \/ DockerConstruct
    \/ StartContainer
    \/ ContainerRuns
    \/ ServiceComesUp
    \/ WaitStart
    \/ WaitService
    \/ Copy2Container
    \/ DockerEnterFails
    \/ SendFails
    \/ BuildInfoSent
    \/ StepInfoSent
    \/ TaskStart
    \/ \E line \in Lines : ShellLine(line)
    \/ FlushSent
    \/ \E kind \in {"exit0", "ExecCmdError", "TimeoutError"} : ShellEnds(kind)
    \/ TaskCancelled
    \/ TaskReturned
    \/ TaskRaised
    \/ FinalFlushSent
    \/ TerminalSent
    \/ DockerExit
    \/ CancelBuild

SpecDocker == InitDocker /\ [][NextDocker]_vars

\* a DockerContainerBuilder of any platform, from its construction to the
\* docker run or docker start of start_container
InitDind ==
    /\ conf \in {c \in DockerConfs : c.steps = <<>>}
    /\ steps = <<>>
    /\ plugins = <<>>
    /\ dind \in [platform : Platforms, is_dind : {FALSE},
                  dind_volume : BOOLEAN, repo_id : {"i", "repo_id"},
                  opts : {<<>>}]
    /\ builders = <<>>
    /\ fs = {}
    /\ container \in {"absent", "stopped"}
    /\ pc = "construct"
    /\ InitBuilder

NextDind ==
    \/ DockerConstruct
    \/ StartContainer

SpecDind == InitDind /\ [][NextDind]_vars

(* ---------------- two builders on one workdir ---------------- *)
\* the directory the relative workdirs are resolved against
Cwd == "/w"

\* the workdir the manager gives to both builders, written as an absolute
\* and as a relative path
Workdirs == {[abs |-> TRUE, path |-> "/w/src"],
             [abs |-> FALSE, path |-> "src"]}

\* os.path.abspath
Abspath(w) == IF w.abs THEN w.path ELSE Cwd \o "/" \o w.path

\* the names of the configured builders
BuilderNames == {"b1", "b2"}

BuilderIds == {1, 2}

\* Builder._get_tmp_dir
GetTmpDir(b) == Abspath(b.workdir) \o "-" \o b.name

\* two Builders constructed for the same workdir, each from the config of
\* one of the configured builders, before their build()
InitTwo ==
    /\ builders \in [BuilderIds -> [name : BuilderNames, workdir : Workdirs,
                                     remove_env : BOOLEAN, pc : {"mkdir"},
                                     ran : {0}]]
    /\ fs = {}
    /\ conf = [name |-> BuilderName, plugins |-> <<>>, steps |-> <<>>]
    /\ steps = <<>>
    /\ plugins = <<>>
    /\ dind = NoDind
    /\ container = "off"
    /\ pc = "mkdir"
    /\ InitBuilder

\* what a step of one of the two builders leaves alone
OneUnchanged ==
    UNCHANGED <<plugins, dind, conf, container, docker_cmds, steps,
                remove_env, pc, index, build_status, build_info, step_info,
                next_uuid, step_output_buff, current_step_output_index,
                current_step_output_buff_len, task, build_tasks, sent,
                tmp_dir, exited, out_fn_lines, line_count, executed,
                cancelled_index>>

\* _copy_workdir of builder b: mkdir -p <tmp_dir>
BuilderMkdir(b) ==
    /\ builders[b].pc = "mkdir"
    /\ fs' = fs \cup {GetTmpDir(builders[b])}
    /\ builders' = [builders EXCEPT ![b].pc = "cp"]
    /\ OneUnchanged

\* _copy_workdir of builder b: cp -R <workdir>/* <tmp_dir>; __aenter__
\* returns
BuilderCopy(b) ==
    /\ builders[b].pc = "cp"
    /\ GetTmpDir(builders[b]) \in fs
    /\ builders' = [builders EXCEPT ![b].pc = "steps"]
    /\ UNCHANGED fs
    /\ OneUnchanged

\* _copy_workdir of builder b: exec_cmd raises for mkdir or cp, as cp does
\* when the target is gone; build() raises
BuilderCopyFails(b) ==
    /\ builders[b].pc \in {"mkdir", "cp"}
    /\ builders' = [builders EXCEPT ![b].pc = "raised"]
    /\ UNCHANGED fs
    /\ OneUnchanged

\* _do_build of builder b: a step is executed with the derived dir as cwd
BuilderStep(b) ==
    /\ builders[b].pc = "steps"
    /\ builders[b].ran < MaxSteps
    /\ builders' = [builders EXCEPT ![b].ran = @ + 1]
    /\ UNCHANGED fs
    /\ OneUnchanged

\* _do_build of builder b returns or raises
BuilderBodyEnds(b) ==
    /\ builders[b].pc = "steps"
    /\ builders' = [builders EXCEPT ![b].pc = "aexit"]
    /\ UNCHANGED fs
    /\ OneUnchanged

\* __aexit__ of builder b: rm -rf <tmp_dir> iff remove_env
BuilderExit(b) ==
    /\ builders[b].pc = "aexit"
    /\ fs' = IF builders[b].remove_env
             THEN fs \ {GetTmpDir(builders[b])}
             ELSE fs
    /\ builders' = [builders EXCEPT ![b].pc = "done"]
    /\ OneUnchanged

NextTwo ==
    \/ \E b \in BuilderIds : BuilderMkdir(b)
    \/ \E b \in BuilderIds : BuilderCopy(b)
    \/ \E b \in BuilderIds : BuilderCopyFails(b)
    \/ \E b \in BuilderIds : BuilderStep(b)
    \/ \E b \in BuilderIds : BuilderBodyEnds(b)
    \/ \E b \in BuilderIds : BuilderExit(b)

SpecTwo == InitTwo /\ [][NextTwo]_vars

(* ---------------- reading the messages ---------------- *)
IsRunning(m)  == m.info_type = "step_info" /\ m.status = "running"
IsTerminal(m) == m.info_type = "step_info" /\ m.status # "running"
IsOutput(m)   == m.info_type = "step_output_info"

Positions == 1..Len(sent)

\* the statuses of the terminal step_info messages of the build
TerminalStatuses == {sent[k].status : k \in {j \in Positions : IsTerminal(sent[j])}}

RECURSIVE OutputLinesFrom(_, _)
\* the lines carried by the step_output_info messages of a step, in the
\* order the messages were sent, from position k on
OutputLinesFrom(uuid, k) ==
    IF k > Len(sent) THEN <<>>
    ELSE IF IsOutput(sent[k]) /\ sent[k].uuid = uuid
         THEN sent[k].lines \o OutputLinesFrom(uuid, k + 1)
         ELSE OutputLinesFrom(uuid, k + 1)

Rank(status) ==
    CASE status = "success" -> 0
      [] status = "warning" -> 1
      [] status = "fail" -> 2
      [] status = "exception" -> 3
      [] OTHER -> -1

Finished == pc \in {"done", "raised"}

\* execute has returned its outcome and the builder has not resumed yet
Returned == pc = "await_task" /\ task.state = "returned"

(* ---------------- C1 ---------------- *)
\* C1: when the registered task of step N was cancelled, then once the
\* build has ended the terminal step_info of step N has status cancelled,
\* no step_info of step N+1 was sent, and __aexit__ has run.
C1_CancelledStepEndsCancelled ==
    (Finished /\ cancelled_index # None) =>
        /\ \E k \in Positions : /\ IsTerminal(sent[k])
                                /\ sent[k].index = cancelled_index
                                /\ sent[k].status = "cancelled"
        /\ \A k \in Positions : sent[k].info_type = "step_info"
                                    => sent[k].index # cancelled_index + 1
        /\ exited

(* ---------------- C2 ---------------- *)
\* C2: when no step was cancelled, the status of the build_info that
\* build() returns is the worst of the terminal statuses of the executed
\* steps, under success < warning < fail < exception.
C2_BuildStatusIsWorst ==
    (pc = "done" /\ TerminalStatuses # {} /\ "cancelled" \notin TerminalStatuses) =>
        /\ build_info.status \in TerminalStatuses
        /\ \A st \in TerminalStatuses : Rank(st) <= Rank(build_info.status)

(* ---------------- C3 ---------------- *)
\* C3: when a step ended cancelled, the status of the returned build_info
\* is cancelled, whatever the statuses of the steps before it.
C3_CancelledStepCancelsBuild ==
    (pc = "done" /\ "cancelled" \in TerminalStatuses) =>
        build_info.status = "cancelled"

(* ---------------- C4 ---------------- *)
\* C4: the messages handed to send_info are: first the one build_info
\* (running); then per step, in increasing index order from 0, one running
\* step_info, the step_output_info messages of the step, one terminal
\* step_info, all with the uuid of the running step_info, which no earlier
\* message carries; a running step_info of index i > 0 directly follows
\* the terminal step_info of index i - 1; when the build has ended every
\* step whose command was executed has its running and its terminal
\* step_info, and when build() has returned these are all the step_info
\* messages.
C4_MessageOrder ==
    /\ sent # <<>> => sent[1].info_type = "build_info" /\ sent[1].status = "running"
    /\ \A k \in Positions \ {1} :
         /\ sent[k].info_type # "build_info"
         /\ IsRunning(sent[k]) =>
              /\ IF sent[k].index = 0 THEN k = 2
                 ELSE /\ IsTerminal(sent[k - 1])
                      /\ sent[k - 1].index = sent[k].index - 1
              /\ \A j \in 1..(k - 1) : sent[j].uuid # sent[k].uuid
         /\ IsOutput(sent[k]) =>
              /\ IsRunning(sent[k - 1]) \/ IsOutput(sent[k - 1])
              /\ sent[k - 1].uuid = sent[k].uuid
         /\ IsTerminal(sent[k]) =>
              /\ IsRunning(sent[k - 1]) \/ IsOutput(sent[k - 1])
              /\ sent[k - 1].uuid = sent[k].uuid
              /\ \E j \in 1..(k - 1) : /\ IsRunning(sent[j])
                                       /\ sent[j].uuid = sent[k].uuid
                                       /\ sent[j].index = sent[k].index
    /\ \A i \in executed : \E k \in Positions : IsRunning(sent[k]) /\ sent[k].index = i
    /\ Finished =>
         \A i \in executed : \E k, j \in Positions :
             /\ k < j
             /\ IsRunning(sent[k]) /\ sent[k].index = i
             /\ IsTerminal(sent[j]) /\ sent[j].index = i
             /\ sent[j].uuid = sent[k].uuid
    /\ pc = "done" =>
         \A k \in Positions : IsRunning(sent[k]) => sent[k].index \in executed

\* a build of two steps that returned, the second with output lines
C4_Witness ==
    /\ pc = "done"
    /\ \E k \in Positions : IsTerminal(sent[k]) /\ sent[k].index = 1
    /\ \E k \in Positions : /\ IsOutput(sent[k]) /\ sent[k].lines # <<>>
                            /\ sent[k].uuid = step_info.uuid
                            /\ step_info.index = 1

(* ---------------- C5 ---------------- *)
\* C5: after a terminal step_info with status fail or exception of a step
\* with stop_on_fail, no step_info of a later index is sent and no later
\* step's command is given to the shell.
C5_StopOnFail ==
    \A k \in Positions :
        ( /\ IsTerminal(sent[k])
          /\ sent[k].status \in {"fail", "exception"}
          /\ StepAt(sent[k].index).stop_on_fail ) =>
            /\ \A j \in Positions : sent[j].info_type = "step_info"
                                        => sent[j].index <= sent[k].index
            /\ \A i \in executed : i <= sent[k].index

\* the build returned after a stop_on_fail step that timed out, with a step
\* left unexecuted
C5_Witness ==
    /\ pc = "done"
    /\ \E k \in Positions : /\ IsTerminal(sent[k])
                            /\ sent[k].status = "exception"
                            /\ StepAt(sent[k].index).stop_on_fail
                            /\ sent[k].index + 1 < Len(steps)

(* ---------------- C6 ---------------- *)
\* C6: execute of a step with warning_on_fail never returns fail or
\* exception: both become warning, success and cancelled are returned as
\* they are.
C6_WarningOnFail ==
    (Returned /\ StepAt(index).warning_on_fail) =>
        /\ task.result.status \notin {"fail", "exception"}
        /\ task.raw \in {"fail", "exception"} => task.result.status = "warning"
        /\ task.raw \in {"success", "cancelled"} => task.result.status = task.raw

\* execute of a warning_on_fail step returned after a cancellation
C6_Witness ==
    /\ Returned
    /\ StepAt(index).warning_on_fail
    /\ task.raw = "cancelled"
    /\ \E k \in Positions : IsTerminal(sent[k]) /\ sent[k].status = "warning"

(* ---------------- C7 ---------------- *)
\* C7: execute classifies what the shell did, before the promotion: exit
\* code 0 is success with the command's output, ExecCmdError is fail with
\* the error's output, a timeout is exception with '<command> has timed out
\* in <timeout> seconds', a cancellation is cancelled with 'Build
\* cancelled'; in each case the task returns an outcome: a task that raised
\* never gave its command to the shell.
C7_Classification ==
    /\ Returned =>
         /\ task.shell \in {"exit0", "ExecCmdError", "TimeoutError", "CancelledError"}
         /\ task.shell = "exit0" =>
              /\ task.raw = "success"
              /\ task.result.output = ShellOutput(out_fn_lines)
         /\ task.shell = "ExecCmdError" =>
              /\ task.raw = "fail"
              /\ task.result.output = ShellOutput(out_fn_lines)
         /\ task.shell = "TimeoutError" =>
              /\ task.raw = "exception"
              /\ task.result.output = <<StepAt(index).command, " has timed out in ",
                                        ToString(StepAt(index).timeout), " seconds">>
         /\ task.shell = "CancelledError" =>
              /\ task.raw = "cancelled"
              /\ task.result.output = <<"Build cancelled">>
    /\ task.state = "raised" => index \notin executed

\* execute returned after a timeout of a command that had written a line
C7_Witness ==
    /\ Returned
    /\ task.shell = "TimeoutError"
    /\ out_fn_lines # <<>>

(* ---------------- C8 ---------------- *)
\* C8: the output_index of a step_output_info handed to send_info is the
\* number of step_output_info messages of the same step handed over before
\* it: 0, 1, 2, ... in sending order.
C8_DenseOutputIndex ==
    \A k \in Positions :
        IsOutput(sent[k]) =>
            sent[k].output_index =
                Cardinality({j \in 1..(k - 1) :
                                IsOutput(sent[j]) /\ sent[j].uuid = sent[k].uuid})

\* a step that was cancelled while the flush of a line was suspended in
\* send_info: the final flush is numbered next and carries the line again
C8_Witness ==
    \E k \in Positions \ {1} :
        /\ IsOutput(sent[k])
        /\ IsOutput(sent[k - 1])
        /\ sent[k].output_index = 1
        /\ sent[k].lines # <<>>
        /\ sent[k - 1].lines = sent[k].lines
        /\ step_info.status = "cancelled"

(* ---------------- C9 ---------------- *)
\* C9: when the terminal step_info of a step is sent, the lines carried by
\* the step_output_info messages of the step, in sending order, are the
\* lines handed to out_fn in the step, each once and in delivery order.
C9_LinesOnceInOrder ==
    pc = "send_terminal" =>
        OutputLinesFrom(step_info.uuid, 1) = BuffIndexes(out_fn_lines)

(* ---------------- C10 ---------------- *)
\* C10: once the step task has ended (returned or raised) and the builder
\* is past its await of the task, the manager's registry holds no task of
\* the build.
C10_TaskDeregistered ==
    (task.state \in {"returned", "raised"} /\ pc # "await_task") =>
        build_tasks = NoTask

(* ---------------- C15 ---------------- *)
\* C15: when build() has ended, on whatever path, the derived workdir is
\* gone if remove_env is true, and the workdir that was prepared is still
\* there if remove_env is false.
C15_WorkdirRemovedIffRemoveEnv ==
    Finished =>
        /\ remove_env => ~tmp_dir
        /\ (~remove_env /\ sent # <<>>) => tmp_dir

(* ---------------- C16 ---------------- *)
\* C16: when mkdir or cp of the workspace preparation failed, no step ran
\* and the build has a build_info with status exception.
C16_WorkspaceErrorIsBuildException ==
    (Finished /\ sent = <<>>) =>
        /\ executed = {}
        /\ build_info.status = "exception"

(* ---------------- C18 ---------------- *)
\* the number of terminal step_info messages
TerminalCount == Cardinality({k \in Positions : IsTerminal(sent[k])})

\* a step with steps left after it ended fail or exception with stop_on_fail
StopOnFailAbort ==
    \E k \in Positions : /\ IsTerminal(sent[k])
                         /\ sent[k].status \in {"fail", "exception"}
                         /\ StepAt(sent[k].index).stop_on_fail
                         /\ sent[k].index + 1 < Len(steps)

\* a step with steps left after it ended cancelled
CancelledBeforeLast ==
    \E k \in Positions : /\ IsTerminal(sent[k])
                         /\ sent[k].status = "cancelled"
                         /\ sent[k].index + 1 < Len(steps)

C19_EmptyBuildSucceeds ==
    (pc = "done" /\ Len(steps) = 0) =>
        /\ build_info.status = "success"
        /\ build_info.total_steps = 0
        /\ Len(sent) = 1
        /\ sent[1].info_type = "build_info" /\ sent[1].status = "running"

C11_DoBuildNeverRaises ==
    sent # <<>> => pc \notin {"aexit_exc", "raised"}

(* ---------------- C17 ---------------- *)
\* the config has a plugin entry without the name key
HasNamelessPlugin ==
    \E i \in 1..Len(conf.plugins) : "name" \notin DOMAIN conf.plugins[i]

\* C17: a plugin entry without name makes the construction raise
\* BadPluginConfig, with no message sent, no workspace prepared, no step
\* list built and no step run.
C17_BadPluginConfig ==
    (HasNamelessPlugin /\ pc # "construct") =>
        /\ pc = "BadPluginConfig"
        /\ sent = <<>>
        /\ ~tmp_dir
        /\ steps = <<>>
        /\ executed = {}
        /\ task = NoTaskRec

\* the construction raised for a config whose second plugin entry has no
\* name
C17_Witness ==
    /\ pc = "BadPluginConfig"
    /\ Len(conf.plugins) = 2
    /\ "name" \in DOMAIN conf.plugins[1]
    /\ "name" \notin DOMAIN conf.plugins[2]

(* ---------------- C12 ---------------- *)
\* how often a docker command was issued
CmdCount(c) == Cardinality({k \in 1..Len(docker_cmds) : docker_cmds[k] = c})

\* C12: when a build in a container has ended after the builder entered
\* its scope, on whatever path, the exit actions have run: the last docker
\* commands are kill, then rm or rm-src.
C12_ExitRunsOnEveryPath ==
    (container # "off" /\ Finished /\ sent # <<>>) =>
        /\ exited
        /\ Len(docker_cmds) >= 2
        /\ docker_cmds[Len(docker_cmds) - 1] = "kill"
        /\ docker_cmds[Len(docker_cmds)] \in {"rm", "rm_src"}

\* build() raised out of the build loop while a step was cancelled, and the
\* container was killed
C12_Witness ==
    /\ container # "off"
    /\ pc = "raised"
    /\ cancelled_index # None
    /\ exited
    /\ CmdCount("kill") = 1

(* ---------------- C13 ---------------- *)
\* C13: when a lifecycle command of enter failed after the container was
\* created or started, the build has a build_info with status exception
\* and the container was killed.
C13_EnterFailureIsBuildException ==
    ( /\ container # "off"
      /\ pc = "raised"
      /\ sent = <<>>
      /\ CmdCount("run") + CmdCount("start") > 0 ) =>
        /\ build_info.status = "exception"
        /\ CmdCount("kill") = 1

(* ---------------- C14 ---------------- *)
\* C14: a build in a container calls docker kill at most once, rm and
\* rm-src only after it, and when the build has ended kill was called
\* exactly once, rm iff remove_env and rm-src iff not remove_env.
C14_KillOnceRmIffRemoveEnv ==
    container # "off" =>
        /\ CmdCount("kill") <= 1
        /\ CmdCount("rm") + CmdCount("rm_src") <= CmdCount("kill")
        /\ Finished =>
             /\ CmdCount("kill") = 1
             /\ CmdCount("rm") = (IF remove_env THEN 1 ELSE 0)
             /\ CmdCount("rm_src") = (IF remove_env THEN 0 ELSE 1)

\* a build that keeps its environment returned: the container was killed
\* and its source directory removed
C14_Witness ==
    /\ pc = "done"
    /\ ~remove_env
    /\ exited
    /\ docker_cmds[Len(docker_cmds)] = "rm_src"

(* ---------------- C21 ---------------- *)
\* C21: the build_info a build returns has total_steps equal to the length
\* of the materialized step list (plugin steps and steps of the config),
\* also when the loop was left early.
C21_TotalSteps ==
    pc \in {"aexit", "done"} =>
        /\ build_info.total_steps = Len(steps)
        /\ Len(steps) = Len(GetSteps(conf))

\* a build with plugin steps returned after its first step stopped the loop
C21_Witness ==
    /\ pc = "done"
    /\ conf.plugins # <<>>
    /\ TerminalCount = 1
    /\ build_info.total_steps = 2

(* ---------------- C22 ---------------- *)
\* the step_output_info messages of the build
OutputPositions == {k \in Positions : IsOutput(sent[k])}

\* C22: with STEP_OUTPUT_BUFF_LEN = 0, a build of one successful step whose
\* command wrote exactly one line has exactly one step_output_info, which
\* carries that line.
C22_OneLineOneOutputInfo ==
    ( /\ pc = "done"
      /\ Len(steps) = 1
      /\ step_info.status = "success"
      /\ Len(out_fn_lines) = 1
      /\ out_fn_lines[1].line # <<>> ) =>
        /\ Cardinality(OutputPositions) = 1
        /\ \A k \in OutputPositions : sent[k].lines = <<0>>

(* ---------------- C27 ---------------- *)
\* the terminal step_info messages that are not success
NonSuccessPositions ==
    {k \in Positions : IsTerminal(sent[k]) /\ sent[k].status # "success"}

\* the status of the first step that did not succeed, success if there is
\* none
FirstNonSuccess ==
    IF NonSuccessPositions = {} THEN "success"
    ELSE sent[CHOOSE k \in NonSuccessPositions :
                  \A j \in NonSuccessPositions : k <= j].status

\* C27: the status of a build that ran steps is the terminal status of the
\* first step that did not succeed, success if all succeeded; and during
\* the loop a build_status that is not success is the status of that step.
C27_FirstNonSuccessSticks ==
    /\ (pc \in {"aexit", "done"} /\ TerminalCount > 0) =>
           build_info.status = FirstNonSuccess
    /\ build_status \notin {NoStatus, "success"} =>
           /\ NonSuccessPositions # {}
           /\ build_status = FirstNonSuccess

\* a build of two steps ended warning: the first step ended warning and the
\* second success
C27_Witness ==
    /\ pc = "done"
    /\ TerminalCount = 2
    /\ step_info.status = "success"
    /\ build_info.status = "warning"

(* ---------------- C28 ---------------- *)
\* C28: the terminal step_info of a step that ended cancelled is the last
\* message of the build, whatever the step's stop_on_fail: no later step is
\* started.
C28_CancelledStopsLoop ==
    \A k \in Positions :
        (IsTerminal(sent[k]) /\ sent[k].status = "cancelled") =>
            /\ k = Len(sent)
            /\ pc \in {"send_terminal", "aexit", "done"}

\* a build returned after its first step, without stop_on_fail, ended
\* cancelled; the second step was not started
C28_Witness ==
    /\ pc = "done"
    /\ Len(steps) = 2
    /\ sent[Len(sent)].index = 0
    /\ sent[Len(sent)].status = "cancelled"
    /\ ~StepAt(0).stop_on_fail

(* ---------------- C30 ---------------- *)
\* C30: while the builder resolves a command or is suspended in a send of
\* _do_build (build_info, running or terminal step_info, final flush), the
\* registry has no task of the build and no cancellation is pending.
C30_NoTaskOutsideAwait ==
    pc \in {"get_command", "send_build_info", "send_step_info",
            "final_flush", "send_terminal"} =>
        /\ build_tasks = NoTask
        /\ ~task.must_cancel

\* the builder resolves the command of the second step after the first
\* step's task returned: nothing is registered
C30_Witness ==
    /\ pc = "get_command"
    /\ index = 1
    /\ executed = {0}
    /\ build_tasks = NoTask

(* ---------------- C29 ---------------- *)
\* the names of the two steps a plugin puts before the steps of the config
BeforeNames(pdict) ==
    IF pdict.name = "apt-install"
    THEN <<"Updating apt packages list", "Installing packages with apt-get">>
    ELSE <<"Create virtualenv", "install dependencies using pip">>

\* the plugins that put a step after the steps of the config
PluginsWithAfterStep ==
    {j \in 1..Len(conf.plugins) :
        conf.plugins[j].name = "python-venv" /\ conf.plugins[j].remove_env}

\* the running step_info messages before position k
RunningBefore(k) == {j \in 1..(k - 1) : IsRunning(sent[j])}

\* C29: the step list of a constructed builder is the before-steps of the
\* plugins in declaration order, then the steps of the config in order (a
\* bare string s giving name s and command s), then the after-steps of the
\* plugins; and the steps are started in list order, the step_info of the
\* step at list position i carrying index i, its name and its command.
C29_StepListOrder ==
    pc \notin {"construct", "BadPluginConfig"} =>
        LET nb == 2 * Len(conf.plugins)
            nu == Len(conf.steps)
            na == Cardinality(PluginsWithAfterStep)
        IN /\ Len(steps) = nb + nu + na
           /\ \A j \in 1..Len(conf.plugins) :
                 /\ steps[2 * j - 1].name = BeforeNames(conf.plugins[j])[1]
                 /\ steps[2 * j].name = BeforeNames(conf.plugins[j])[2]
           /\ \A i \in 1..nu :
                 IF "str" \in DOMAIN conf.steps[i]
                 THEN /\ steps[nb + i].name = conf.steps[i].str
                      /\ steps[nb + i].command = conf.steps[i].str
                 ELSE /\ steps[nb + i].name = conf.steps[i].name
                      /\ steps[nb + i].command = conf.steps[i].command
           /\ \A i \in 1..na : steps[nb + nu + i].name = "remove venv"
           /\ \A k \in Positions :
                 IsRunning(sent[k]) =>
                     /\ sent[k].index = Cardinality(RunningBefore(k))
                     /\ sent[k].name = steps[sent[k].index + 1].name
                     /\ sent[k].cmd = steps[sent[k].index + 1].command

\* a build with the python-venv plugin (remove_env) and one step given as
\* a string ran its four steps
C29_Witness ==
    /\ pc = "done"
    /\ Len(conf.plugins) = 1
    /\ conf.plugins[1].name = "python-venv"
    /\ conf.plugins[1].remove_env
    /\ Len(conf.steps) = 1
    /\ "str" \in DOMAIN conf.steps[1]
    /\ TerminalCount = 4

(* ---------------- C24 ---------------- *)
\* the order of the docker commands of enter
EnterOrder ==
    /\ \A k \in 1..Len(docker_cmds) :
         LET c == docker_cmds[k]
             prev == IF k > 1 THEN docker_cmds[k - 1] ELSE "none"
             prev2 == IF k > 2 THEN docker_cmds[k - 2] ELSE "none"
         IN /\ c \in {"run", "start"} => k = 1
            /\ k = 1 => c \in {"run", "start", "kill"}
            /\ c \in {"is_running_false", "is_running_true"} =>
                 \/ prev \in {"run", "start"}
                 \/ prev = "sleep" /\ prev2 = "is_running_false"
            /\ c \in {"service_is_up_false", "service_is_up_true"} =>
                 \/ prev = "is_running_true"
                 \/ prev = "sleep" /\ prev2 = "service_is_up_false"
            /\ c = "sleep" =>
                 prev \in {"is_running_false", "service_is_up_false"}
            /\ (prev \in {"is_running_false", "service_is_up_false"}) =>
                 c = "sleep"
            /\ c = "cp" => prev = "service_is_up_true"
            /\ c = "chown" => prev = "cp"
    /\ (sent # <<>> \/ executed # {} \/ task # NoTaskRec) =>
         \E k \in 1..Len(docker_cmds) : docker_cmds[k] = "chown"

\* C24: enter issues docker run iff the container does not exist and docker
\* start otherwise; is_running is then probed, with a sleep after every
\* false answer, until it is true, then service_is_up likewise; only then
\* come docker cp and, right after it, chown; nothing of the build loop
\* (message, task, step) comes before the chown.
C24_EnterOrder ==
    /\ []EnterOrder
    /\ [][(pc = "start_container" /\ pc' = "wait_start") =>
             docker_cmds' = <<IF container = "absent" THEN "run"
                                                       ELSE "start">>]_vars

\* a step runs in a container that existed and was started, after a probe
\* that was answered false and slept on
C24_Witness ==
    /\ executed # {}
    /\ docker_cmds[1] = "start"
    /\ Sleeps = 1

(* ---------------- C25 ---------------- *)
\* the step list of the base Builder for the config: plugin before-steps,
\* user steps, plugin after-steps
BaseSteps ==
    PluginStepsBefore(conf.plugins) \o UserSteps(conf.steps)
        \o PluginStepsAfter(conf.plugins)

Options(opts) == SelectSeq(opts, LAMBDA t : t # " ")

\* is sub a run of consecutive elements of seq
Contains(seq, sub) ==
    \E k \in 0..Len(seq) :
        /\ k + Len(sub) <= Len(seq)
        /\ SubSeq(seq, k + 1, k + Len(sub)) = sub

\* the mount of the named volume at /var/lib/docker/
MountOf(volume) ==
    <<"--mount", " ", "source=", volume, ",", "destination=/var/lib/docker/">>

\* C26: _is_dind is true iff the platform starts with 'docker'; the options
\* of docker run have no word when _is_dind is false, contain --privileged
\* when it is true, and contain the mount of the volume
\* <repo_id>-<builder-name>-volume at /var/lib/docker/ iff _dind_volume is
\* true as well
C26_Dind ==
    (container # "off" /\ pc # "construct") =>
        /\ dind.is_dind <=>
              /\ Len(dind.platform) >= 6
              /\ <<dind.platform[1], dind.platform[2], dind.platform[3],
                    dind.platform[4], dind.platform[5], dind.platform[6]>>
                    = <<"d", "o", "c", "k", "e", "r">>
        /\ docker_cmds = <<"run">> =>
              /\ ~dind.is_dind => Options(dind.opts) = <<>>
              /\ dind.is_dind => Contains(dind.opts, <<"--privileged">>)
              /\ Contains(dind.opts, <<"--mount">>)
                    <=> (dind.is_dind /\ dind.dind_volume)
              /\ Contains(dind.opts, <<"--mount">>) =>
                    Contains(dind.opts,
                             MountOf(dind.repo_id \o "-" \o conf.name
                                        \o "-volume"))

\* docker run was issued for a dockerkube builder that mounts its volume
C26_Witness ==
    /\ docker_cmds = <<"run">>
    /\ dind.platform = DockerKube
    /\ dind.dind_volume
    /\ dind.repo_id = "repo_id"
    /\ Contains(dind.opts, <<"source=", "repo_id-b1-volume">>)

(* ---------------- C23 ---------------- *)
\* builder a runs the cp of its workspace preparation, or the rm -rf of its
\* teardown, in this step
Touches(a) ==
    \/ builders[a].pc = "cp" /\ builders'[a].pc = "steps"
    \/ /\ builders[a].pc = "aexit" /\ builders'[a].pc = "done"
       /\ builders[a].remove_env

\* C23: of two builders running concurrently on the same workdir, neither
\* runs the cp of its workspace preparation or the rm -rf of its teardown on
\* the directory in which the steps of the other are executing
C23_NoCollision ==
    [][\A a \in BuilderIds : \A b \in BuilderIds \ {a} :
          (builders[b].pc = "steps" /\ Touches(a))
              => GetTmpDir(builders[a]) # GetTmpDir(builders[b])]_vars

(* ---------------- C31 ---------------- *)
\* the step has both warning_on_fail and stop_on_fail
BothFlags(step) == step.warning_on_fail /\ step.stop_on_fail

\* C31: a step with both warning_on_fail and stop_on_fail whose command
\* fails or times out does not stop the build: execute returns warning,
\* the terminal step_info has status warning, never fail or exception, and
\* when a step is left the next message is its running step_info.
C31_WarningBeforeStopOnFail ==
    /\ ( /\ pc \in {"await_task", "final_flush", "send_terminal"}
         /\ task.state = "returned"
         /\ task.shell \in {"ExecCmdError", "TimeoutError"}
         /\ BothFlags(StepAt(index)) ) =>
            /\ task.result.status = "warning"
            /\ pc = "send_terminal" => sent[Len(sent)].status = "warning"
    /\ \A k \in Positions :
          (IsTerminal(sent[k]) /\ BothFlags(StepAt(sent[k].index))) =>
              /\ sent[k].status \notin {"fail", "exception"}
              /\ ( /\ sent[k].status = "warning"
                   /\ sent[k].index + 1 < Len(steps) ) =>
                      IF k = Len(sent) THEN pc = "send_terminal"
                      ELSE /\ IsRunning(sent[k + 1])
                           /\ sent[k + 1].index = sent[k].index + 1

\* the first step has both flags and ended warning, and the command of the
\* second step, which has both flags too, timed out
C31_Witness ==
    /\ pc = "send_terminal"
    /\ index = 1
    /\ task.shell = "TimeoutError"
    /\ BothFlags(StepAt(0))
    /\ BothFlags(StepAt(1))
    /\ \E k \in Positions : /\ IsTerminal(sent[k])
                            /\ sent[k].index = 0
                            /\ sent[k].status = "warning"

====
